---------------------------- MODULE Spec2Model ----------------------------
(***************************************************************************)
(* PageRank estimators of src/pagerank.py: transition_model,              *)
(* sample_pagerank and iterate_pagerank.                                   *)
(*                                                                         *)
(* Numbers.  The damping factor is the rational damping_factor / DampDen.  *)
(* transition_model and the visit frequencies of sample_pagerank are       *)
(* computed in exact rationals <<numerator, denominator>>.  The floats of  *)
(* iterate_pagerank are fixed-point numbers: the integer x stands for      *)
(* x / RES, and every division truncates where the source divides.         *)
(*                                                                         *)
(* Control.  One call of one of the three functions is followed from its  *)
(* first statement to its return or to the exception it raises.  The for   *)
(* loop of a pass visits the keys in any order (todo holds the keys still  *)
(* to visit), and prob_dis_diff is the set of the differences appended so  *)
(* far, which is all that .any() reads.  random.choice and random.choices  *)
(* are a free choice among the pages they can return.                      *)
(*                                                                         *)
(* Pages are "A", "B", ... in the order of PageNames; a corpus of j pages  *)
(* has the first j names as keys.  Damping factors are numerators over     *)
(* DampDen; 0 and DampDen (d = 0 and d = 1) are the out-of-range values.   *)
(***************************************************************************)
EXTENDS Integers, FiniteSets, Sequences, TLC

(* ------------------------------ bounds -------------------------------- *)
MaxPages == 3
MaxIterPages == 4
MaxSamples == 3
MaxSamplePages == 2

PageNames == <<"A", "B", "C", "D", "E", "F">>
RES == 10^6
DampDen == 4 * 5
DAMPING == 17
ValidDamping == {10, DAMPING}
InvalidDamping == {0, DampDen}
IterDamping == {14, DAMPING}
LiveDamping == {10, 14, DAMPING, 19}
NoPage == "-"
EmptyDist == [p \in {} |-> 0]

VARIABLES corpus, damping_factor, pc, fn, page, n, probdis, cur_page,
          pageranks_raw, pageranks, prob_dis, previous_prob_dis,
          prob_dis_diff, todo, converged, error

vars == <<corpus, damping_factor, pc, fn, page, n, probdis, cur_page,
          pageranks_raw, pageranks, prob_dis, previous_prob_dis,
          prob_dis_diff, todo, converged, error>>

tmVars == <<page, probdis>>
sampleVars == <<n, cur_page, pageranks_raw, pageranks>>
iterVars == <<prob_dis, previous_prob_dis, prob_dis_diff, todo, converged>>

(* ------------------------------ corpus -------------------------------- *)
PageIds(k) == {PageNames[i] : i \in 1..k}

\* crawl: every link target is a key, no page links to itself
Corpora(k) ==
    UNION {{c \in [PageIds(j) -> SUBSET PageIds(j)] :
               \A p \in PageIds(j) : p \notin c[p]} : j \in 0..k}

keys == DOMAIN corpus
len(S) == Cardinality(S)

(* ----------------------------- numbers -------------------------------- *)
Abs(x) == IF x < 0 THEN -x ELSE x

RatAdd(a, b) == <<a[1] * b[2] + b[1] * a[2], a[2] * b[2]>>
RatDiv(a, k) == <<a[1], a[2] * k>>
RatEq(a, b) == a[1] * b[2] = b[1] * a[2]
RatPos(a) == a[1] * a[2] > 0

RECURSIVE SumOver(_, _)
SumOver(S, f) ==
    IF S = {} THEN 0
    ELSE LET x == CHOOSE y \in S : TRUE
         IN  f[x] + SumOver(S \ {x}, f)

(* ------------------------- transition_model --------------------------- *)
linked_bonus_missing(c, d) == <<0, 1>>

\* lines 71-72: a page without links spreads the damped share over all keys
linked_bonus_dangling(c, d) == RatDiv(<<d, DampDen>>, len(DOMAIN c))

linked_bonus(c, pg, key, d) ==
    LET pages == c[pg]
        bonus1 == IF key \in pages
                  THEN RatDiv(<<d, DampDen>>, len(pages))
                  ELSE <<0, 1>>
    IN  IF len(pages) = 0 THEN linked_bonus_dangling(c, d) ELSE bonus1

transition_model(c, pg, d) ==
    [key \in DOMAIN c |->
        RatAdd(RatDiv(<<DampDen - d, DampDen>>, len(DOMAIN c)),
               linked_bonus(c, pg, key, d))]

KeyErrorLenient(c, pg) == pg \notin DOMAIN c \/ c[pg] = {}

\* corpus[page] at line 63 raises KeyError for a page that is no key
KeyError(c, pg) == pg \notin DOMAIN c

TransitionModelCall ==
    /\ pc = "idle"
    /\ \E pg \in PageIds(MaxPages) :
        /\ fn' = "transition_model"
        /\ page' = pg
        /\ IF KeyError(corpus, pg)
           THEN /\ pc' = "raised"
                /\ error' = "KeyError"
                /\ probdis' = probdis
           ELSE /\ pc' = "returned"
                /\ error' = error
                /\ probdis' = transition_model(corpus, pg, damping_factor)
    /\ UNCHANGED <<corpus, damping_factor>>
    /\ UNCHANGED sampleVars
    /\ UNCHANGED iterVars

(* -------------------------- sample_pagerank --------------------------- *)
\* random.choices(population, weights): a page of positive weight
Choices(dist) == {q \in DOMAIN dist : RatPos(dist[q])}

range_n(k) == k

\* range(n-1): the number of steps after the first sample
range_n_minus_1(k) == k - 1

count(s, key) == len({i \in 1..Len(s) : s[i] = key})

\* Lines 87-90, on the corpora of at most MaxSamplePages pages.
SamplePagerankCall ==
    /\ pc = "idle"
    /\ len(keys) <= MaxSamplePages
    /\ \E k \in 1..MaxSamples :
        /\ fn' = "sample_pagerank"
        /\ n' = k
        /\ IF keys = {}
           THEN \* random.choice of an empty list
                /\ pc' = "raised"
                /\ error' = "IndexError"
                /\ UNCHANGED <<cur_page, pageranks_raw>>
           ELSE /\ \E q \in keys :
                     /\ cur_page' = q
                     /\ pageranks_raw' = <<q>>
                /\ pc' = "sample_loop"
                /\ error' = error
    /\ UNCHANGED <<corpus, damping_factor, pageranks>>
    /\ UNCHANGED tmVars
    /\ UNCHANGED iterVars

SampleStep ==
    /\ pc = "sample_loop"
    /\ Len(pageranks_raw) - 1 < range_n_minus_1(n)
    /\ \E q \in Choices(transition_model(corpus, cur_page, damping_factor)) :
        /\ cur_page' = q
        /\ pageranks_raw' = Append(pageranks_raw, q)
    /\ UNCHANGED <<corpus, damping_factor, pc, fn, n, pageranks, error>>
    /\ UNCHANGED tmVars
    /\ UNCHANGED iterVars

SampleReturn ==
    /\ pc = "sample_loop"
    /\ ~(Len(pageranks_raw) - 1 < range_n_minus_1(n))
    /\ pageranks' = [key \in keys |-> <<count(pageranks_raw, key), n>>]
    /\ pc' = "returned"
    /\ UNCHANGED <<corpus, damping_factor, fn, n, cur_page, pageranks_raw, error>>
    /\ UNCHANGED tmVars
    /\ UNCHANGED iterVars

(* ------------------------- iterate_pagerank --------------------------- *)
\* the convergence threshold 0.001 of line 139
Threshold == RES \div 1000

\* one term of partial_prob, lines 130-133
contribution(c, parent, pg, dist) ==
    IF pg \in c[parent] THEN dist[parent] \div len(c[parent])
    ELSE IF len(c[parent]) = 0 THEN RES \div len(DOMAIN c)
    ELSE 0

RECURSIVE partial_prob(_, _, _, _)
partial_prob(c, parents, pg, dist) ==
    IF parents = {} THEN 0
    ELSE LET parent == CHOOSE q \in parents : TRUE
         IN  contribution(c, parent, pg, dist)
               + partial_prob(c, parents \ {parent}, pg, dist)

\* line 135
new_rank(c, d, pg, dist) ==
    (RES - (d * RES) \div DampDen) \div len(DOMAIN c)
      + (d * partial_prob(c, DOMAIN c \ {pg}, pg, dist)) \div DampDen

read_in_place == prob_dis

\* the distribution the inner loop reads, line 131
read_dist == previous_prob_dis

fresh_diff_stale == prob_dis_diff

\* prob_dis_diff = np.array(list()), line 126
fresh_diff == {}

any_above_all(diffs) == diffs # {} /\ \A x \in diffs : x > Threshold

\* (prob_dis_diff > 0.001).any(), line 139
any_above(diffs) == \E x \in diffs : x > Threshold

\* Lines 116-122.  With d = 1 the loop need not end and, with a dangling
\* page, its values grow without bound: the call is followed for d < 1.
IteratePagerankCall ==
    /\ pc = "idle"
    /\ damping_factor < DampDen
    /\ fn' = "iterate_pagerank"
    /\ prob_dis' = [p \in keys |-> RES \div len(keys)]
    /\ converged' = FALSE
    /\ pc' = "while"
    /\ UNCHANGED <<corpus, damping_factor, error,
                   previous_prob_dis, prob_dis_diff, todo>>
    /\ UNCHANGED tmVars
    /\ UNCHANGED sampleVars

PassBegin ==
    /\ pc = "while"
    /\ ~converged
    /\ previous_prob_dis' = prob_dis
    /\ prob_dis_diff' = fresh_diff
    /\ todo' = keys
    /\ pc' = "for"
    /\ UNCHANGED <<corpus, damping_factor, fn, error, prob_dis, converged>>
    /\ UNCHANGED tmVars
    /\ UNCHANGED sampleVars

PassPage ==
    /\ pc = "for"
    /\ \E pg \in todo :
        LET v == new_rank(corpus, damping_factor, pg, read_dist)
        IN  /\ prob_dis' = [prob_dis EXCEPT ![pg] = v]
            /\ prob_dis_diff' =
                   prob_dis_diff \cup {Abs(previous_prob_dis[pg] - v)}
            /\ todo' = todo \ {pg}
    /\ UNCHANGED <<corpus, damping_factor, pc, fn, error,
                   previous_prob_dis, converged>>
    /\ UNCHANGED tmVars
    /\ UNCHANGED sampleVars

PassEnd ==
    /\ pc = "for"
    /\ todo = {}
    /\ converged' = ~any_above(prob_dis_diff)
    /\ pc' = "while"
    /\ UNCHANGED <<corpus, damping_factor, fn, error, prob_dis,
                   previous_prob_dis, prob_dis_diff, todo>>
    /\ UNCHANGED tmVars
    /\ UNCHANGED sampleVars

IterateReturn ==
    /\ pc = "while"
    /\ converged
    /\ pc' = "returned"
    /\ UNCHANGED <<corpus, damping_factor, fn, error>>
    /\ UNCHANGED iterVars
    /\ UNCHANGED tmVars
    /\ UNCHANGED sampleVars

(* --------------------------- specifications --------------------------- *)
InitWith(C, D) ==
    /\ corpus \in C
    /\ damping_factor \in D
    /\ pc = "idle"
    /\ fn = "none"
    /\ page = NoPage
    /\ n = 0
    /\ probdis = EmptyDist
    /\ cur_page = NoPage
    /\ pageranks_raw = <<>>
    /\ pageranks = EmptyDist
    /\ prob_dis = EmptyDist
    /\ previous_prob_dis = EmptyDist
    /\ prob_dis_diff = {}
    /\ todo = {}
    /\ converged = FALSE
    /\ error = "none"

Init == InitWith(Corpora(MaxPages), ValidDamping \cup InvalidDamping)

Next ==
    \/ TransitionModelCall
    \/ SamplePagerankCall
    \/ SampleStep
    \/ SampleReturn
    \/ IteratePagerankCall
    \/ PassBegin
    \/ PassPage
    \/ PassEnd
    \/ IterateReturn

Spec == Init /\ [][Next]_vars

IterNext ==
    \/ IteratePagerankCall
    \/ PassBegin
    \/ PassPage
    \/ PassEnd
    \/ IterateReturn

\* iterate_pagerank alone, on the valid corpora of up to MaxIterPages pages
IterInit == InitWith(Corpora(MaxIterPages) \ {EmptyDist}, IterDamping)

IterSpec == IterInit /\ [][IterNext]_vars

\* iterate_pagerank alone, running to completion: the interpreter executes
\* the next statement of the loop as long as there is one
LiveInit == InitWith(Corpora(MaxPages) \ {EmptyDist}, LiveDamping)

LiveSpec == LiveInit /\ [][IterNext]_vars /\ WF_vars(IterNext)

(* ------------------------------ claims -------------------------------- *)
ValidD == 0 < damping_factor /\ damping_factor < DampDen
ValidInput == keys # {} /\ ValidD
ValidCall == ValidInput /\ (fn = "transition_model" => page \in keys)
TruncSlack == 10^2
SumTolerance == RES \div 10^6 + TruncSlack
counts == [k \in DOMAIN pageranks |-> pageranks[k][1]]

\* C1: on a valid corpus and 0 < d < 1 the values iterate_pagerank returns
\* sum to 1 within 1e-6 (plus the truncation of the fixed-point numbers).
C1_SumToOne ==
    (fn = "iterate_pagerank" /\ pc = "returned" /\ ValidInput)
        => Abs(SumOver(keys, prob_dis) - RES) <= SumTolerance

\* C2: for the corpus {A: {}} both estimators return exactly {A: 1.0}.
C2_SinglePage ==
    (keys = {"A"} /\ ValidD /\ pc = "returned")
        => /\ fn = "sample_pagerank" => RatEq(pageranks["A"], <<1, 1>>)
           /\ fn = "iterate_pagerank" => prob_dis["A"] = RES

\* C3: every value iterate_pagerank holds after a pass, and every value it
\* returns, lies in [0, 1].
C3_UnitInterval ==
    (fn = "iterate_pagerank" /\ pc \in {"while", "returned"} /\ ValidInput)
        => \A p \in keys : 0 <= prob_dis[p] /\ prob_dis[p] <= RES

C4_Expected(q) ==
    LET N == len(keys)
        L == len(corpus[page])
        d == damping_factor
    IN  IF L > 0
        THEN IF q \in corpus[page]
             THEN <<(DampDen - d) * L + d * N, DampDen * N * L>>
             ELSE <<DampDen - d, DampDen * N>>
        ELSE <<1, N>>

\* C4: transition_model returns a value for every key q of the corpus:
\* (1-d)/N + d/L if q is linked from page, (1-d)/N if it is not, and 1/N
\* for every q when page has no links.
C4_TransitionValues ==
    (fn = "transition_model" /\ pc = "returned" /\ ValidD)
        => /\ DOMAIN probdis = keys
           /\ \A q \in keys : RatEq(probdis[q], C4_Expected(q))

C4_Witness ==
    /\ fn = "transition_model" /\ pc = "returned" /\ ValidD
    /\ corpus[page] = {}
    /\ len(keys) >= 2

\* C5: sample_pagerank records exactly n visits, each a key of the corpus;
\* the result has exactly the corpus keys, every count lies in 0..n and the
\* counts sum to n.
C5_SampleCounts ==
    (fn = "sample_pagerank" /\ pc = "returned" /\ ValidInput)
        => /\ Len(pageranks_raw) = n
           /\ \A i \in 1..Len(pageranks_raw) : pageranks_raw[i] \in keys
           /\ DOMAIN pageranks = keys
           /\ \A k \in keys : /\ pageranks[k][2] = n
                              /\ 0 <= pageranks[k][1]
                              /\ pageranks[k][1] <= n
           /\ SumOver(keys, counts) = n

C5_Witness ==
    /\ fn = "sample_pagerank" /\ pc = "returned" /\ ValidInput
    /\ n >= 2
    /\ \E i, j \in 1..Len(pageranks_raw) : pageranks_raw[i] # pageranks_raw[j]

\* C6: on a valid corpus and 0 < d < 1 the pass loop of iterate_pagerank
\* reaches a pass that changes no value by more than 0.001, and returns.
C6_Terminates ==
    (fn = "iterate_pagerank" /\ ValidInput) ~> (pc = "returned")

C6_Witness ==
    /\ fn = "iterate_pagerank" /\ pc = "returned" /\ ValidInput
    /\ \E p \in keys : prob_dis[p] # RES \div len(keys)

\* C7 as stated: every precondition violation makes the called operation
\* fail before it computes anything, and no distribution is returned.
C7_InvalidInputRejected ==
    (fn # "none" /\ ~ValidCall)
        => /\ pc = "raised"
           /\ probdis = EmptyDist
           /\ pageranks_raw = <<>>
           /\ prob_dis = EmptyDist

\* C7 amended: of the listed violations exactly two make a call fail,
\* transition_model on a page that is no key (KeyError) and sample_pagerank
\* on an empty corpus (IndexError), both before anything is computed;
\* iterate_pagerank on an empty corpus returns the empty distribution, and a
\* damping factor of 0 or 1 is computed with: what returns is a mapping over
\* the corpus keys.
C7_FailuresOfTheCode ==
    /\ pc = "raised" <=>
          \/ fn = "transition_model" /\ page \notin keys
          \/ fn = "sample_pagerank" /\ keys = {}
    /\ pc = "raised" =>
          /\ error = (IF fn = "transition_model" THEN "KeyError" ELSE "IndexError")
          /\ probdis = EmptyDist
          /\ pageranks_raw = <<>>
          /\ pageranks = EmptyDist
    /\ pc # "raised" => error = "none"
    /\ (fn = "iterate_pagerank" /\ keys = {} /\ pc = "returned")
          => prob_dis = EmptyDist
    /\ (pc = "returned" /\ ~ValidD) =>
          /\ fn = "transition_model" => DOMAIN probdis = keys
          /\ fn = "sample_pagerank" => DOMAIN pageranks = keys
          /\ fn = "iterate_pagerank" => DOMAIN prob_dis = keys

C7_Witness ==
    /\ pc = "raised" /\ fn = "transition_model"
    /\ keys # {}
    /\ ValidD

\* C8 as stated: one more application of the update rule changes every value
\* of the returned distribution by at most 0.001.
C8_ResidualOfResult ==
    (fn = "iterate_pagerank" /\ pc = "returned" /\ ValidInput)
        => \A p \in keys :
              Abs(new_rank(corpus, damping_factor, p, prob_dis) - prob_dis[p])
                  <= Threshold

\* C8 amended: the returned distribution is the update of the distribution
\* held before the last pass, and differs from it by at most 0.001 on every
\* page.
C8_ResidualOfPrevious ==
    (fn = "iterate_pagerank" /\ pc = "returned" /\ ValidInput)
        => \A p \in keys :
              /\ prob_dis[p] =
                     new_rank(corpus, damping_factor, p, previous_prob_dis)
              /\ Abs(prob_dis[p] - previous_prob_dis[p]) <= Threshold

C8_Witness ==
    /\ fn = "iterate_pagerank" /\ pc = "returned" /\ ValidInput
    /\ \E p \in keys :
          Abs(new_rank(corpus, damping_factor, p, prob_dis) - prob_dis[p])
              > Threshold

C9_contribution(i, p, dist) ==
    IF corpus[i] = {} THEN dist[i] \div len(keys)
    ELSE IF p \in corpus[i] THEN dist[i] \div len(corpus[i])
    ELSE 0

C9_rank(p, dist) ==
    (RES - (damping_factor * RES) \div DampDen) \div len(keys)
      + (damping_factor
           * SumOver(keys \ {p}, [i \in keys |-> C9_contribution(i, p, dist)]))
          \div DampDen

\* C9: in every pass the new value of p is (1-d)/N + d times the sum, over
\* the other pages i, of PR_prev(i)/N if i has no links, PR_prev(i)/|corpus[i]|
\* if i links to p, and 0 otherwise.
C9_DanglingShare ==
    (fn = "iterate_pagerank" /\ pc = "for" /\ ValidInput)
        => \A p \in keys \ todo : prob_dis[p] = C9_rank(p, previous_prob_dis)

\* C10: within a pass every page already visited holds the update of the
\* distribution of the previous pass and every page not yet visited still
\* holds its previous value, whatever the order of the visits; the first
\* pass starts from 1/N everywhere.
C10_SynchronousPass ==
    /\ (fn = "iterate_pagerank" /\ pc \in {"for", "returned"}) =>
          \A p \in keys :
              prob_dis[p] =
                  IF p \in todo THEN previous_prob_dis[p]
                  ELSE new_rank(corpus, damping_factor, p, previous_prob_dis)
    /\ (pc = "while" /\ previous_prob_dis = EmptyDist) =>
          \A p \in keys : prob_dis[p] = RES \div len(keys)

C10_Witness ==
    /\ fn = "iterate_pagerank" /\ pc = "for"
    /\ \E p \in keys \ todo, q \in todo :
          /\ q \in corpus[p]
          /\ prob_dis[p] # previous_prob_dis[p]

=============================================================================
